---------------------------- MODULE Spec2Model ----------------------------
(* A model of StepMania's banner cache (src/stepmania/src/BannerCache.cpp): *)
(* the on-disk cache files and index, the in-memory map of low-res banner   *)
(* surfaces, the demand refcount and the banner textures handed to the      *)
(* texture manager.  Every public entry point is one atomic action: the     *)
(* program is single-threaded.                                               *)
EXTENDS Integers, Sequences, FiniteSets, TLC

(***************************************************************************)
(* Bounds of the model.                                                    *)
(***************************************************************************)
\* Demand() is not called once the refcount has reached this value.
MaxRefcount == 2
\* Undemand() is not called once the refcount has fallen this far below 0.
MaxUnderflow == 1
\* GetHashForFile() yields a value in 1..MaxHash.
MaxHash == 2
\* The banner whose size varies is at most MaxDim pixels wide and high.
MaxDim == 104

\* The banner paths of the song library.
Paths == {"a", "b"}
\* What a caller may pass as sBannerPath: a banner path or the empty string.
Args == Paths \cup {""}

\* The decoded source image of each banner: width, height, bytes per pixel.
\* "a" is an ordinary banner, "b" a diagonal one.
SourceImage ==
    [a |-> [w |-> 800, h |-> 600, bytes |-> 4],
     b |-> [w |-> 300, h |-> 300, bytes |-> 1]]

\* The values DISPLAY->GetMaxTextureSize() takes: smaller than every cached
\* banner, between two of their sizes, larger than all of them.
DisplaySizes == {16, 48, 2048}

(***************************************************************************)
(* Values.                                                                 *)
(***************************************************************************)
BNCACHE_OFF == "BNCACHE_OFF"
BNCACHE_LOW_RES_PRELOAD == "BNCACHE_LOW_RES_PRELOAD"
BNCACHE_LOW_RES_LOAD_ON_DEMAND == "BNCACHE_LOW_RES_LOAD_ON_DEMAND"
BannerCacheModes ==
    {BNCACHE_OFF, BNCACHE_LOW_RES_PRELOAD, BNCACHE_LOW_RES_LOAD_ON_DEMAND}

\* A RageSurface pointer: NULL, or a surface of w x h pixels at bpp bits.
NULL == [k |-> "null", w |-> 0, h |-> 0, bpp |-> 0]
Surface(w, h, bpp) == [k |-> "surf", w |-> w, h |-> h, bpp |-> bpp]

\* A file of the cache directory: absent, undecodable, or an encoded surface.
NoFile == [k |-> "none", w |-> 0, h |-> 0, bpp |-> 0]
BadFile == [k |-> "bad", w |-> 0, h |-> 0, bpp |-> 0]
SurfaceFile(img) == [k |-> "file", w |-> img.w, h |-> img.h, bpp |-> img.bpp]

\* A source banner file: absent, present but undecodable, or decodable.
NoSource == [k |-> "none", hash |-> 0]
SourceFile(k, hash) == [k |-> k, hash |-> hash]

\* The states of each source banner on disk.  "a" is edited, damaged and
\* removed; "b" is only ever removed or put back.
SourceFiles(sBannerPath) ==
    IF sBannerPath = "a"
    THEN {NoSource, SourceFile("bad", 1)}
             \cup {SourceFile("good", h) : h \in 1..MaxHash}
    ELSE {NoSource, SourceFile("good", 1)}

\* A child of BannerData: no node for the path, or its attributes.
NoRecord ==
    [k |-> "none", Path |-> "", Width |-> 0, Height |-> 0, FullHash |-> 0,
     Rotated |-> FALSE]

Abs(x) == IF x < 0 THEN -x ELSE x
Min(x, y) == IF x < y THEN x ELSE y
Max(x, y) == IF x > y THEN x ELSE y

(***************************************************************************)
(* The collaborators, as the calls use them.                               *)
(***************************************************************************)
RECURSIVE PowerOfTwoFrom(_, _)
PowerOfTwoFrom(iValue, iInput) ==
    IF iValue >= iInput THEN iValue ELSE PowerOfTwoFrom(2 * iValue, iInput)

\* The smallest power of two that is >= iInput.
power_of_two(iInput) == PowerOfTwoFrom(1, iInput)

\* Sprite::IsDiagonalBanner: the shape of a banner rotated by 45 degrees.
IsDiagonalBanner(iWidth, iHeight) ==
    iWidth >= 100 /\ Abs(iWidth - iHeight) < 2

\* SongCacheIndex::GetCacheFilePath( "Banners", sBannerPath ).
GetBannerCachePath(sBannerPath) == "Banners/" \o sBannerPath

\* RageSurfaceUtils::Zoom: the surface, resized in place.
Zoom(img, width, height) == [img EXCEPT !.w = width, !.h = height]

\* RageSurfaceUtils::LoadSurface of a cache file: NULL unless it decodes.
LoadSurface(file) ==
    IF file.k = "file" THEN Surface(file.w, file.h, file.bpp) ELSE NULL

(***************************************************************************)
(* closest and the resize target of CacheBannerInternal.                   *)
(***************************************************************************)
\* A closest that gives the second number when the two are equally near.
closestOrSecond(num, n1, n2) ==
    IF Abs(num - n1) >= Abs(num - n2) THEN n2 ELSE n1

closest(num, n1, n2) ==
    IF Abs(num - n1) > Abs(num - n2) THEN n2 ELSE n1

\* Lines 431-436, for one dimension: half of it, rounded to a power of two.
RoundedHalf(iSource) ==
    LET half == iSource \div 2
    IN  closest(half, power_of_two(half), power_of_two(half) \div 2)

\* A resize with no lower limit.
ResizeFloorNone(iSource) == 0

\* Lines 440-441: the least size a dimension is resized to.
ResizeFloor(iSource) == Min(32, power_of_two(iSource))

\* A resize target that never exceeds the halved dimension: the power of
\* two below it, with the same floor.
ResizeTargetRoundedDown(iSource) ==
    LET half == iSource \div 2
        below == IF power_of_two(half) = half THEN half
                 ELSE power_of_two(half) \div 2
    IN  Max(below, Min(32, power_of_two(iSource)))

\* Lines 431-441, for one dimension of the image that is resized.
ResizeTarget(iSource) == Max(RoundedHalf(iSource), ResizeFloor(iSource))

(***************************************************************************)
(* State.                                                                  *)
(***************************************************************************)
VARIABLES
    m_BannerCache,          \* PREFSMAN->m_BannerCache
    m_bFastLoad,            \* PREFSMAN->m_bFastLoad
    m_bPalettedBannerCache, \* PREFSMAN->m_bPalettedBannerCache
    maxTextureSize,         \* DISPLAY->GetMaxTextureSize()
    g_BannerPathToImage,    \* path -> surface; NULL stands for "no entry"
    g_iDemandRefcount,
    BannerData,             \* the index: path -> record
    source,                 \* the source banner files
    cacheFiles,             \* the cache directory: cache path -> file
    sourceImage,            \* what each source banner decodes to
    registered,             \* texture IDs registered with TEXTUREMAN
    dangling,               \* registered IDs whose map slot has been erased
    aborted,                \* an ASSERT has failed
    last                    \* what the last call did

vars ==
    <<m_BannerCache, m_bFastLoad, m_bPalettedBannerCache, maxTextureSize,
      g_BannerPathToImage, g_iDemandRefcount, BannerData, source, cacheFiles,
      sourceImage, registered, dangling, aborted, last>>

CachePaths == {GetBannerCachePath(p) : p \in Paths}


(***************************************************************************)
(* The file system, as the cache sees it.                                  *)
(***************************************************************************)
\* DoesFileExist( sBannerPath ): the source banner is on disk.
DoesFileExist(sBannerPath) ==
    sBannerPath \in Paths /\ source[sBannerPath].k # "none"

\* GetHashForFile( sBannerPath ).
GetHashForFile(sBannerPath) == source[sBannerPath].hash

\* RageSurfaceUtils::LoadFile of the source banner: NULL unless it decodes.
LoadFile(sBannerPath) ==
    IF sBannerPath \in Paths /\ source[sBannerPath].k = "good"
    THEN sourceImage[sBannerPath]
    ELSE [w |-> 0, h |-> 0, bytes |-> 0]

(***************************************************************************)
(* The cache during one call: the map, the demand refcount, the index, the *)
(* cache directory, and counts of what the call has done so far.           *)
(*   loads   calls of LoadSurface on a cache file                          *)
(*   regens  calls of CacheBannerInternal                                  *)
(*   saves   cache files written (each with a rewrite of the index file)   *)
(*   unloads calls of UnloadAllBanners                                     *)
(*   allocs  surfaces the call has got from LoadSurface or LoadFile        *)
(*   frees   surfaces the call has deleted                                 *)
(*   overwrites  assignments to a map slot that held a surface             *)
(*   erased  the paths whose map slot the call has erased                  *)
(***************************************************************************)
Current ==
    [img |-> g_BannerPathToImage, refcount |-> g_iDemandRefcount,
     data |-> BannerData, files |-> cacheFiles,
     loads |-> 0, regens |-> 0, saves |-> 0, unloads |-> 0,
     allocs |-> 0, frees |-> 0, overwrites |-> 0, erased |-> {}]

\* g_BannerPathToImage.find(sBannerPath) != g_BannerPathToImage.end()
IsLoaded(c, sBannerPath) == c.img[sBannerPath].k # "null"

\* g_BannerPathToImage[sBannerPath] = img: the slot takes the pointer, and
\* whatever it held before is not deleted.
Insert(c, sBannerPath, img) ==
    [c EXCEPT !.img[sBannerPath] = img,
              !.overwrites = @ + (IF IsLoaded(c, sBannerPath) THEN 1 ELSE 0)]

\* An un-rotation that is not seen in the size of the image.
UnrotatedKeepsSize(img) ==
    [w |-> img.w, h |-> img.h, bytes |-> img.bytes,
     rotated |-> IsDiagonalBanner(img.w, img.h)]

\* Lines 383-425: the image that is resized, and whether it was un-rotated.
Unrotated(img) ==
    IF IsDiagonalBanner(img.w, img.h)
    THEN [w |-> 256, h |-> 64, bytes |-> 4, rotated |-> TRUE]
    ELSE [w |-> img.w, h |-> img.h, bytes |-> img.bytes, rotated |-> FALSE]

\* Lines 463-480: the bits per pixel of the surface that is saved.
EncodedBits(bytes, bPaletted) ==
    IF bPaletted
    THEN (IF bytes # 1 THEN 8 ELSE 8 * bytes)
    ELSE 16

\* A CacheBannerInternal that keeps the new surface in every mode.
KeepsNewImageAlways(mode) == mode \in BannerCacheModes

\* Lines 493-499: the new surface is kept in the map only in preload mode.
KeepsNewImage(mode) == mode = BNCACHE_LOW_RES_PRELOAD

\* A LoadFile whose result is never taken for NULL.
LoadFileFailedNever(sBannerPath) == sBannerPath \notin Paths

\* Lines 376-381: LoadFile has returned NULL.
LoadFileFailed(sBannerPath) ==
    sBannerPath \notin Paths \/ source[sBannerPath].k # "good"

\* A CacheBannerInternal that leaves a loaded surface where it is.
EvictsOldImageNever(c, sBannerPath) == sBannerPath \notin Paths

\* Line 486: an old image is loaded.
EvictsOldImage(c, sBannerPath) == IsLoaded(c, sBannerPath)

\* Lines 485-499: the old surface is deleted and its slot erased; the new
\* one is put in the map or deleted.
ReplaceImage(c, sBannerPath, img) ==
    LET evicted ==
            IF EvictsOldImage(c, sBannerPath)
            THEN [c EXCEPT !.img[sBannerPath] = NULL,
                           !.frees = @ + 1,
                           !.erased = @ \cup {sBannerPath}]
            ELSE c
    IN  IF KeepsNewImage(m_BannerCache)
        THEN Insert(evicted, sBannerPath, img)
        ELSE [evicted EXCEPT !.frees = @ + 1]

CacheBannerInternal(c, sBannerPath) ==
    LET called == [c EXCEPT !.regens = @ + 1]
        loaded == LoadFile(sBannerPath)
    IN  IF LoadFileFailed(sBannerPath)
        THEN called
        ELSE
        LET img == Unrotated(loaded)
            width == ResizeTarget(img.w)
            height == ResizeTarget(img.h)
            saved == Surface(width, height,
                             EncodedBits(img.bytes, m_bPalettedBannerCache))
            CachePath == GetBannerCachePath(sBannerPath)
            record ==
                [k |-> "rec", Path |-> CachePath, Width |-> img.w,
                 Height |-> img.h, FullHash |-> GetHashForFile(sBannerPath),
                 Rotated |-> img.rotated]
            written ==
                [called EXCEPT
                    !.allocs = @ + 1,
                    !.files[CachePath] = SurfaceFile(saved),
                    !.saves = @ + 1]
        IN  [ReplaceImage(written, sBannerPath, saved) EXCEPT
                !.data[sBannerPath] = record]

(***************************************************************************)
(* LoadBanner (lines 106-146).                                             *)
(***************************************************************************)
\* The bound of the loop at line 117.
MaxTries == 2

\* A LoadBanner that regenerates after every failed load.
RetriesAfterEvery(tries) == tries >= 0

\* Line 126: a failed load is followed by a regeneration on the first try.
RetriesAfter(tries) == tries = 0

\* A low-res test that leaves the preload mode out.
LowResModeOnDemandOnly(mode) == mode = BNCACHE_LOW_RES_LOAD_ON_DEMAND

\* Lines 110-112: LoadBanner and CacheBanner act in the two low-res modes.
LowResMode(mode) ==
    mode = BNCACHE_LOW_RES_PRELOAD \/ mode = BNCACHE_LOW_RES_LOAD_ON_DEMAND

RECURSIVE LoadBannerTries(_, _, _)
LoadBannerTries(c, sBannerPath, tries) ==
    IF tries >= MaxTries THEN c
    ELSE IF IsLoaded(c, sBannerPath) THEN c
    ELSE
    LET img == LoadSurface(c.files[GetBannerCachePath(sBannerPath)])
        tried == [c EXCEPT !.loads = @ + 1]
    IN  IF img = NULL
        THEN IF RetriesAfter(tries)
             THEN LoadBannerTries(CacheBannerInternal(tried, sBannerPath),
                                  sBannerPath, tries + 1)
             ELSE tried
        ELSE LoadBannerTries(
                 Insert([tried EXCEPT !.allocs = @ + 1], sBannerPath, img),
                 sBannerPath, tries + 1)

LoadBanner(c, sBannerPath) ==
    IF sBannerPath = "" THEN c
    ELSE IF ~LowResMode(m_BannerCache) THEN c
    ELSE LoadBannerTries(c, sBannerPath, 0)

(***************************************************************************)
(* CacheBanner (lines 334-371).                                            *)
(***************************************************************************)
\* An up-to-date check that takes any recorded hash for the current one.
CacheUpToDateAnyHash(c, sBannerPath) ==
    m_bFastLoad \/ c.data[sBannerPath].k = "rec"

\* Lines 349-356: bCacheUpToDate.
CacheUpToDate(c, sBannerPath) ==
    \/ m_bFastLoad
    \/ /\ c.data[sBannerPath].k = "rec"
       /\ c.data[sBannerPath].FullHash = GetHashForFile(sBannerPath)

\* An existence test that is satisfied without looking.
CacheFileExistsAlways(c, sBannerPath) == sBannerPath \in Paths

\* Line 347: DoesFileExist(CachePath).
CacheFileExists(c, sBannerPath) ==
    c.files[GetBannerCachePath(sBannerPath)].k # "none"

\* Line 361: an up-to-date cache file is loaded only in preload mode.
LoadsWhenUpToDate(mode) == mode = BNCACHE_LOW_RES_PRELOAD

CacheBanner(c, sBannerPath) ==
    IF ~LowResMode(m_BannerCache) THEN c
    ELSE IF ~DoesFileExist(sBannerPath) THEN c
    ELSE IF CacheFileExists(c, sBannerPath) /\ CacheUpToDate(c, sBannerPath)
    THEN IF LoadsWhenUpToDate(m_BannerCache)
         THEN LoadBanner(c, sBannerPath)
         ELSE c
    ELSE CacheBannerInternal(c, sBannerPath)

(***************************************************************************)
(* Demand and Undemand (lines 62-100), UnloadAllBanners (160-166).         *)
(***************************************************************************)
\* A Demand that lets the second of two nested scopes through as well.
DemandReturnsEarlyLate(iRefcount) == iRefcount > 2

\* Line 65: only the Demand that finds the count at 0 goes on.
DemandReturnsEarly(iRefcount) == iRefcount > 1

\* Line 93: only the Undemand that brings the count to 0 goes on.
UndemandReturnsEarly(iRefcount) == iRefcount # 0

\* A mode test that takes the preload mode for the on-demand mode too.
OnDemandModeOrPreload(mode) == mode # BNCACHE_OFF

\* Lines 68 and 96.
OnDemandMode(mode) == mode = BNCACHE_LOW_RES_LOAD_ON_DEMAND

\* Lines 71-86, for one child of BannerData.
DemandOne(c, sBannerPath) ==
    IF IsLoaded(c, sBannerPath) THEN c
    ELSE
    LET img == LoadSurface(c.files[GetBannerCachePath(sBannerPath)])
        tried == [c EXCEPT !.loads = @ + 1]
    IN  IF img = NULL THEN tried
        ELSE Insert([tried EXCEPT !.allocs = @ + 1], sBannerPath, img)

\* A pass over the children that ends at the first cache file that does
\* not load.
RECURSIVE DemandAllUntilFailure(_, _)
DemandAllUntilFailure(c, children) ==
    IF children = {} THEN c
    ELSE LET p == CHOOSE q \in children : TRUE
             tried == DemandOne(c, p)
         IN  IF IsLoaded(tried, p)
             THEN DemandAllUntilFailure(tried, children \ {p})
             ELSE tried

\* FOREACH_CONST_Child( &BannerData, p ).
RECURSIVE DemandAll(_, _)
DemandAll(c, children) ==
    IF children = {} THEN c
    ELSE LET p == CHOOSE q \in children : TRUE
         IN  DemandAll(DemandOne(c, p), children \ {p})

Children(c) == {p \in Paths : c.data[p].k = "rec"}

\* An UnloadAllBanners that clears the map and deletes nothing.
UnloadAllBannersNoDelete(c) ==
    [c EXCEPT !.img = [p \in Paths |-> NULL], !.unloads = @ + 1]

UnloadAllBanners(c) ==
    LET loaded == {p \in Paths : IsLoaded(c, p)}
    IN  [c EXCEPT !.img = [p \in Paths |-> NULL],
                  !.unloads = @ + 1,
                  !.frees = @ + Cardinality(loaded),
                  !.erased = @ \cup loaded]

Demand(c) ==
    LET counted == [c EXCEPT !.refcount = @ + 1]
    IN  IF DemandReturnsEarly(counted.refcount) THEN counted
        ELSE IF ~OnDemandMode(m_BannerCache) THEN counted
        ELSE DemandAll(counted, Children(counted))

Undemand(c) ==
    LET counted == [c EXCEPT !.refcount = @ - 1]
    IN  IF UndemandReturnsEarly(counted.refcount) THEN counted
        ELSE IF ~OnDemandMode(m_BannerCache) THEN counted
        ELSE UnloadAllBanners(counted)


(***************************************************************************)
(* BannerTexture::Create (lines 202-243) and LoadCachedBanner (265-323).   *)
(***************************************************************************)
\* Lines 215-222: the surface after the resize that the display may force.
FitToDisplay(img) ==
    IF img.w > maxTextureSize \/ img.h > maxTextureSize
    THEN Zoom(img, Min(img.w, maxTextureSize), Min(img.h, maxTextureSize))
    ELSE img

\* Lines 225-226: the two ASSERTs on the surface given to CreateTexture.
IsTextureSized(img) ==
    img.w = power_of_two(img.w) /\ img.h = power_of_two(img.h)

\* A LoadCachedBanner that never tags the ID.
TextureIDForPlain(sBannerPath, record) == GetBannerCachePath(sBannerPath)

\* Lines 303-308: the ID of the texture of a banner with the given record.
TextureIDFor(sBannerPath, record) ==
    IF record.Rotated
    THEN GetBannerCachePath(sBannerPath) \o "(was rotated)"
    ELSE GetBannerCachePath(sBannerPath)

\* A record test that lets every record through.
IsCorruptRecordNever(record) == record.Width < 0

\* Line 297: the record is unusable.
IsCorruptRecord(record) == record.Width = 0 \/ record.Height = 0

\* The call's outcome: the map, the registered IDs, the ID returned, whether
\* a BannerTexture was constructed (created), whether its ASSERTs failed.
LoadCachedBanner(c, sBannerPath) ==
    LET unchanged(id) ==
            [img |-> c.img, registered |-> registered, id |-> id,
             created |-> FALSE, failed |-> FALSE]
        ID == GetBannerCachePath(sBannerPath)
    IN  IF sBannerPath = "" THEN unchanged(ID)
        ELSE IF ~IsLoaded(c, sBannerPath) THEN unchanged(ID)
        ELSE IF IsCorruptRecord(c.data[sBannerPath]) THEN unchanged(ID)
        ELSE
        LET tagged == TextureIDFor(sBannerPath, c.data[sBannerPath])
            img == FitToDisplay(c.img[sBannerPath])
        IN  IF tagged \in registered THEN unchanged(tagged)
            ELSE IF ~IsTextureSized(img)
            THEN [img |-> [c.img EXCEPT ![sBannerPath] = img],
                  registered |-> registered, id |-> tagged,
                  created |-> TRUE, failed |-> TRUE]
            ELSE [img |-> [c.img EXCEPT ![sBannerPath] = img],
                  registered |-> registered \cup {tagged}, id |-> tagged,
                  created |-> TRUE, failed |-> FALSE]

(***************************************************************************)
(* Initial states: the cache directory and the index as an earlier run may *)
(* have left them, nothing loaded.                                         *)
(***************************************************************************)
\* What CacheBannerInternal saves for a banner.
SavedSurface(sBannerPath, bPaletted) ==
    LET img == Unrotated(SourceImage[sBannerPath])
    IN  Surface(ResizeTarget(img.w), ResizeTarget(img.h),
                EncodedBits(img.bytes, bPaletted))

\* What CacheBannerInternal records for a banner whose file hashes to hash.
SavedRecord(sBannerPath, hash) ==
    LET img == Unrotated(SourceImage[sBannerPath])
    IN  [k |-> "rec", Path |-> GetBannerCachePath(sBannerPath),
         Width |-> img.w, Height |-> img.h, FullHash |-> hash,
         Rotated |-> img.rotated]

EarlierCacheFiles(sBannerPath) ==
    {NoFile, BadFile}
        \cup {SurfaceFile(SavedSurface(sBannerPath, m_bPalettedBannerCache))}

EarlierRecords(sBannerPath) ==
    {NoRecord}
        \cup {SavedRecord(sBannerPath, f.hash) :
                 f \in {g \in SourceFiles(sBannerPath) : g.k = "good"}}

Idle(op) ==
    [op |-> op, path |-> "", loads |-> 0, regens |-> 0, saves |-> 0,
     unloads |-> 0, frees |-> 0, created |-> FALSE, id |-> ""]

Start(fastLoads, paletted, displaySizes) ==
    /\ m_BannerCache \in BannerCacheModes
    /\ m_bFastLoad \in fastLoads
    /\ m_bPalettedBannerCache \in paletted
    /\ maxTextureSize \in displaySizes
    /\ g_BannerPathToImage = [p \in Paths |-> NULL]
    /\ g_iDemandRefcount = 0
    /\ BannerData \in [Paths -> UNION {EarlierRecords(p) : p \in Paths}]
    /\ \A p \in Paths : BannerData[p] \in EarlierRecords(p)
    /\ source \in [Paths -> UNION {SourceFiles(p) : p \in Paths}]
    /\ \A p \in Paths : source[p] \in SourceFiles(p)
    /\ cacheFiles \in
           [CachePaths -> UNION {EarlierCacheFiles(p) : p \in Paths}]
    /\ \A p \in Paths :
           cacheFiles[GetBannerCachePath(p)] \in EarlierCacheFiles(p)
    /\ sourceImage = SourceImage
    /\ registered = {}
    /\ dangling = {}
    /\ aborted = FALSE
    /\ last = Idle("start")

\* The cache and the files around it, on a display that fits every banner.
Init == Start(BOOLEAN, {FALSE}, {2048})

\* The cache and its textures, on displays of every size.
InitTexture == Start({FALSE}, BOOLEAN, DisplaySizes)

\* The cache and its textures with every call, on a display that fits every
\* banner and on one that fits none.
InitOwnership == Start({FALSE}, {FALSE}, {16, 2048})

\* An empty cache in preload mode and a banner "a" of any size up to
\* MaxDim x MaxDim.
InitResize ==
    /\ m_BannerCache = BNCACHE_LOW_RES_PRELOAD
    /\ m_bFastLoad = FALSE
    /\ m_bPalettedBannerCache = FALSE
    /\ maxTextureSize = 2048
    /\ g_BannerPathToImage = [p \in Paths |-> NULL]
    /\ g_iDemandRefcount = 0
    /\ BannerData = [p \in Paths |-> NoRecord]
    /\ source = [p \in Paths |-> SourceFile("good", 1)]
    /\ cacheFiles = [f \in CachePaths |-> NoFile]
    /\ \E w \in 1..MaxDim, h \in 1..MaxDim :
           sourceImage =
               [SourceImage EXCEPT !["a"] = [w |-> w, h |-> h, bytes |-> 4]]
    /\ registered = {}
    /\ dangling = {}
    /\ aborted = FALSE
    /\ last = Idle("start")

(***************************************************************************)
(* Actions: the calls of the cache's clients.                              *)
(***************************************************************************)
\* The path whose map slot the BannerTexture registered as ID refers to.
AliasOf(ID) ==
    CHOOSE p \in Paths :
        ID \in {GetBannerCachePath(p),
                GetBannerCachePath(p) \o "(was rotated)"}

Commit(c, op, sBannerPath) ==
    /\ g_BannerPathToImage' = c.img
    /\ g_iDemandRefcount' = c.refcount
    /\ BannerData' = c.data
    /\ cacheFiles' = c.files
    /\ dangling' =
           dangling \cup {ID \in registered : AliasOf(ID) \in c.erased}
    /\ last' =
           [op |-> op, path |-> sBannerPath, loads |-> c.loads,
            regens |-> c.regens, saves |-> c.saves, unloads |-> c.unloads,
            frees |-> c.frees, created |-> FALSE, id |-> ""]

CallCacheBanner(sBannerPath) ==
    /\ ~aborted
    /\ Commit(CacheBanner(Current, sBannerPath), "CacheBanner", sBannerPath)
    /\ UNCHANGED <<sourceImage,
                   m_BannerCache, m_bFastLoad, m_bPalettedBannerCache,
                   maxTextureSize, source, registered, aborted>>

CallLoadBanner(sBannerPath) ==
    /\ ~aborted
    /\ Commit(LoadBanner(Current, sBannerPath), "LoadBanner", sBannerPath)
    /\ UNCHANGED <<sourceImage,
                   m_BannerCache, m_bFastLoad, m_bPalettedBannerCache,
                   maxTextureSize, source, registered, aborted>>

CallDemand ==
    /\ ~aborted
    /\ g_iDemandRefcount < MaxRefcount
    /\ Commit(Demand(Current), "Demand", "")
    /\ UNCHANGED <<sourceImage,
                   m_BannerCache, m_bFastLoad, m_bPalettedBannerCache,
                   maxTextureSize, source, registered, aborted>>

CallUndemand ==
    /\ ~aborted
    /\ g_iDemandRefcount > -MaxUnderflow
    /\ Commit(Undemand(Current), "Undemand", "")
    /\ UNCHANGED <<sourceImage,
                   m_BannerCache, m_bFastLoad, m_bPalettedBannerCache,
                   maxTextureSize, source, registered, aborted>>

CallUnloadAllBanners ==
    /\ ~aborted
    /\ Commit(UnloadAllBanners(Current), "UnloadAllBanners", "")
    /\ UNCHANGED <<sourceImage,
                   m_BannerCache, m_bFastLoad, m_bPalettedBannerCache,
                   maxTextureSize, source, registered, aborted>>

CallLoadCachedBanner(sBannerPath) ==
    /\ ~aborted
    /\ LET r == LoadCachedBanner(Current, sBannerPath)
       IN  /\ g_BannerPathToImage' = r.img
           /\ registered' = r.registered
           /\ aborted' = r.failed
           /\ last' =
                  [Idle("LoadCachedBanner") EXCEPT
                      !.path = sBannerPath, !.created = r.created,
                      !.id = r.id]
    /\ UNCHANGED <<sourceImage, dangling,
                   m_BannerCache, m_bFastLoad, m_bPalettedBannerCache,
                   maxTextureSize, g_iDemandRefcount, BannerData, source,
                   cacheFiles>>

(***************************************************************************)
(* Actions: what happens around the cache.                                 *)
(***************************************************************************)
\* The user changes the banner cache preference.
SetBannerCache(mode) ==
    /\ ~aborted
    /\ mode # m_BannerCache
    /\ m_BannerCache' = mode
    /\ last' = Idle("SetBannerCache")
    /\ UNCHANGED <<sourceImage, dangling,
                   m_bFastLoad, m_bPalettedBannerCache, maxTextureSize,
                   g_BannerPathToImage, g_iDemandRefcount, BannerData, source,
                   cacheFiles, registered, aborted>>

\* A source banner is added, replaced, damaged or removed.
SourceChanges(sBannerPath, file) ==
    /\ ~aborted
    /\ file # source[sBannerPath]
    /\ source' = [source EXCEPT ![sBannerPath] = file]
    /\ last' = Idle("SourceChanges")
    /\ UNCHANGED <<sourceImage, dangling,
                   m_BannerCache, m_bFastLoad, m_bPalettedBannerCache,
                   maxTextureSize, g_BannerPathToImage, g_iDemandRefcount,
                   BannerData, cacheFiles, registered, aborted>>

\* A cache file is deleted or damaged behind the cache's back.
CacheFileLost(sBannerPath, file) ==
    /\ ~aborted
    /\ cacheFiles[GetBannerCachePath(sBannerPath)] \notin {NoFile, file}
    /\ cacheFiles' =
           [cacheFiles EXCEPT ![GetBannerCachePath(sBannerPath)] = file]
    /\ last' = Idle("CacheFileLost")
    /\ UNCHANGED <<sourceImage, dangling,
                   m_BannerCache, m_bFastLoad, m_bPalettedBannerCache,
                   maxTextureSize, g_BannerPathToImage, g_iDemandRefcount,
                   BannerData, source, registered, aborted>>

\* The texture manager deletes a volatile banner texture that was used.
TextureDeleted(ID) ==
    /\ ~aborted
    /\ ID \in registered
    /\ registered' = registered \ {ID}
    /\ dangling' = dangling \ {ID}
    /\ last' = Idle("TextureDeleted")
    /\ UNCHANGED <<sourceImage,
                   m_BannerCache, m_bFastLoad, m_bPalettedBannerCache,
                   maxTextureSize, g_BannerPathToImage, g_iDemandRefcount,
                   BannerData, source, cacheFiles, aborted>>

\* TEXTUREMAN reloads a registered banner texture: BannerTexture::Reload
\* (lines 251-255) runs Create again on the surface the reference img names.
\* If the slot it refers to has been erased the reference dangles and the
\* read is undefined: the call may come back or may bring the program down.
Reload(ID) ==
    /\ ~aborted
    /\ ID \in registered
    /\ IF ID \in dangling
       THEN /\ aborted' \in BOOLEAN
            /\ UNCHANGED g_BannerPathToImage
       ELSE LET img == FitToDisplay(g_BannerPathToImage[AliasOf(ID)])
            IN  /\ g_BannerPathToImage' =
                       [g_BannerPathToImage EXCEPT ![AliasOf(ID)] = img]
                /\ aborted' = ~IsTextureSized(img)
    /\ last' =
           [Idle("Reload") EXCEPT !.path = AliasOf(ID), !.id = ID]
    /\ UNCHANGED <<sourceImage, dangling, registered,
                   m_BannerCache, m_bFastLoad, m_bPalettedBannerCache,
                   maxTextureSize, g_iDemandRefcount, BannerData, source,
                   cacheFiles>>

Next ==
    \/ \E p \in Paths : CallCacheBanner(p)
    \/ \E p \in Args : CallLoadBanner(p)
    \/ CallDemand
    \/ CallUndemand
    \/ CallUnloadAllBanners
    \/ \E mode \in BannerCacheModes : SetBannerCache(mode)
    \/ \E p \in Paths : \E file \in SourceFiles(p) : SourceChanges(p, file)
    \/ \E p \in Paths, file \in {NoFile, BadFile} : CacheFileLost(p, file)

Spec == Init /\ [][Next]_vars

\* The calls that load banners and make textures of them.
NextTexture ==
    \/ \E p \in Paths : CallCacheBanner(p)
    \/ \E p \in Paths : CallLoadBanner(p)
    \/ CallUnloadAllBanners
    \/ \E p \in Args : CallLoadCachedBanner(p)
    \/ \E ID \in registered : TextureDeleted(ID)
    \/ \E ID \in registered : Reload(ID)
    \/ \E mode \in BannerCacheModes : SetBannerCache(mode)

SpecTexture == InitTexture /\ [][NextTexture]_vars

\* Every call that puts a surface in the map, takes one out or hands one to
\* a texture.
NextOwnership ==
    \/ \E p \in Paths : CallCacheBanner(p)
    \/ \E p \in Paths : CallLoadBanner(p)
    \/ CallDemand
    \/ CallUndemand
    \/ CallUnloadAllBanners
    \/ \E p \in Paths : CallLoadCachedBanner(p)
    \/ \E mode \in BannerCacheModes : SetBannerCache(mode)

SpecOwnership == InitOwnership /\ [][NextOwnership]_vars

\* The calls that cache and load the banner whose size varies.
NextResize ==
    \/ CallCacheBanner("a")
    \/ CallLoadBanner("a")
    \/ CallUnloadAllBanners

SpecResize == InitResize /\ [][NextResize]_vars


(***************************************************************************)
(* Properties.  A property of a call is stated of its outcome in every     *)
(* reachable state in which the call can be made.                          *)
(***************************************************************************)
Loaded == {p \in Paths : g_BannerPathToImage[p] # NULL}

\* C1: in load-on-demand mode nested demand scopes compose.  A Demand() that
\* raises the refcount from n >= 1 to n+1 loads nothing; an Undemand() that
\* leaves the refcount above 0 unloads nothing, so every surface loaded
\* before it is still loaded after it; UnloadAllBanners is called only by
\* the Undemand() that brings the refcount from 1 to 0, and the map is empty
\* after that one.
C1_DemandScopesNest ==
    (~aborted /\ m_BannerCache = BNCACHE_LOW_RES_LOAD_ON_DEMAND) =>
        LET demanded == Demand(Current)
            undemanded == Undemand(Current)
        IN  /\ g_iDemandRefcount >= 1 =>
                /\ demanded.refcount = g_iDemandRefcount + 1
                /\ demanded.loads = 0
                /\ demanded.img = g_BannerPathToImage
            /\ undemanded.refcount > 0 =>
                /\ undemanded.unloads = 0
                /\ undemanded.img = g_BannerPathToImage
            /\ undemanded.unloads > 0 =>
                g_iDemandRefcount = 1 /\ undemanded.refcount = 0
            /\ g_iDemandRefcount = 1 =>
                /\ undemanded.unloads = 1
                /\ \A p \in Paths : undemanded.img[p] = NULL

\* C1's case: an inner Undemand() has returned in load-on-demand mode, one
\* scope is still open, and the banners the outer Demand() loaded are there.
C1_Witness ==
    /\ m_BannerCache = BNCACHE_LOW_RES_LOAD_ON_DEMAND
    /\ last.op = "Undemand"
    /\ g_iDemandRefcount = 1
    /\ Loaded = Paths


\* The cache file of a banner decodes.
CacheLoadable(files, sBannerPath) ==
    LoadSurface(files[GetBannerCachePath(sBannerPath)]) # NULL

\* The banner has a record whose FullHash is the hash of its source file.
HashMatches(sBannerPath) ==
    /\ BannerData[sBannerPath].k = "rec"
    /\ source[sBannerPath].k # "none"
    /\ BannerData[sBannerPath].FullHash = source[sBannerPath].hash

\* The condition under which the specification lets CacheBanner skip the
\* regeneration: fast load, or a cache file whose recorded hash is current.
MaySkip(sBannerPath) ==
    \/ m_bFastLoad
    \/ /\ cacheFiles[GetBannerCachePath(sBannerPath)] # NoFile
       /\ HashMatches(sBannerPath)

\* The call leaves the map, the refcount, the index and the cache directory
\* as they are, and neither loads, regenerates nor unloads.
DoesNothing(c) == c = Current

\* C2: a LoadBanner(path) in a low-res mode with path not loaded loads the
\* cache file at most twice and calls CacheBannerInternal at most once, and
\* only when the first load has failed; if the second load fails too it
\* returns with path not loaded and every other entry of the map as it was.
\* With no cache file and an unreadable source that is what happens: two
\* failed loads around one regeneration attempt.
C2_LoadBannerRetriesOnce ==
    (~aborted /\ LowResMode(m_BannerCache)) =>
        \A p \in Paths : ~IsLoaded(Current, p) =>
            LET r == LoadBanner(Current, p)
            IN  /\ r.loads <= 2
                /\ r.regens <= 1
                /\ r.regens = 1 =>
                       r.loads >= 1 /\ ~CacheLoadable(cacheFiles, p)
                /\ (r.loads = 2 /\ ~CacheLoadable(r.files, p)) =>
                       /\ r.img[p] = NULL
                       /\ \A q \in Paths \ {p} :
                              r.img[q] = g_BannerPathToImage[q]
                /\ (cacheFiles[GetBannerCachePath(p)] = NoFile
                        /\ source[p].k # "good") =>
                       /\ r.loads = 2 /\ r.regens = 1 /\ r.saves = 0
                       /\ r.img = g_BannerPathToImage

\* C2's case: LoadBanner has returned after two failed loads and one
\* regeneration attempt; its banner is not loaded and the other one still is.
C2_Witness ==
    /\ LowResMode(m_BannerCache)
    /\ last.op = "LoadBanner"
    /\ last.loads = 2 /\ last.regens = 1 /\ last.saves = 0
    /\ last.path \in Paths
    /\ Loaded = Paths \ {last.path}

\* C3, as the specification states it: in a low-res mode CacheBanner skips
\* the regeneration only if fast load is set or the cache file exists with
\* the current hash recorded, and regenerates in every other case.
C3_SkipsOnlyIfUpToDate ==
    [][\A p \in Paths :
           (last'.op = "CacheBanner" /\ last'.path = p
                /\ LowResMode(m_BannerCache) /\ ~MaySkip(p)) =>
               last'.regens >= 1]_vars

\* C3, amended: the above for a source file that exists; when the source
\* file does not exist CacheBanner returns without regenerating.
C3_SkipsOnlyIfUpToDateOrNoSource ==
    (~aborted /\ LowResMode(m_BannerCache)) =>
        \A p \in Paths :
            LET r == CacheBanner(Current, p)
            IN  /\ (DoesFileExist(p) /\ ~MaySkip(p)) => r.regens = 1
                /\ (DoesFileExist(p) /\ r.regens = 0) => MaySkip(p)
                /\ ~DoesFileExist(p) => DoesNothing(r)

\* C3's case: without fast load CacheBanner has regenerated a banner whose
\* source had changed, and the record now holds the new hash.
C3_Witness ==
    /\ LowResMode(m_BannerCache)
    /\ ~m_bFastLoad
    /\ last.op = "CacheBanner" /\ last.path = "a"
    /\ last.regens = 1 /\ last.saves = 1
    /\ source["a"].hash = MaxHash
    /\ HashMatches("a")

\* The state after a CacheBanner(p) for which a second CacheBanner(p) is the
\* next call, under C4's conditions.
AfterCacheBanner(p) ==
    /\ ~aborted
    /\ LowResMode(m_BannerCache)
    /\ ~m_bFastLoad
    /\ source[p].k = "good"
    /\ last.op = "CacheBanner" /\ last.path = p

\* C4, as the specification states it: two consecutive CacheBanner(A) with
\* fast load off and an unchanged readable source run CacheBannerInternal
\* exactly once between them.
C4_TwoCallsTransformOnce ==
    [][\A p \in Paths :
           (AfterCacheBanner(p)
                /\ last'.op = "CacheBanner" /\ last'.path = p) =>
               last.regens + last'.regens = 1]_vars

\* C4, amended: the two calls run CacheBannerInternal at most once, and the
\* second never: it finds the cache file present and the recorded FullHash
\* equal to the hash of the source, and changes neither the cache directory
\* nor the index.  The first call runs it exactly once when it finds the
\* cache file absent or another hash recorded.
C4_SecondCallIsNoOp ==
    \A p \in Paths :
        /\ AfterCacheBanner(p) =>
               LET r == CacheBanner(Current, p)
               IN  /\ last.regens <= 1
                   /\ r.regens = 0 /\ r.saves = 0
                   /\ r.files = cacheFiles
                   /\ r.data = BannerData
                   /\ cacheFiles[GetBannerCachePath(p)] # NoFile
                   /\ HashMatches(p)
        /\ (~aborted /\ LowResMode(m_BannerCache) /\ ~m_bFastLoad
                /\ source[p].k = "good"
                /\ ~(cacheFiles[GetBannerCachePath(p)] # NoFile
                         /\ HashMatches(p))) =>
               CacheBanner(Current, p).regens = 1

\* C4's case: the first of the two calls has run the transform and left the
\* cache file and the record of the current hash behind.
C4_Witness ==
    /\ AfterCacheBanner("a")
    /\ last.regens = 1 /\ last.saves = 1
    /\ CacheLoadable(cacheFiles, "a")
    /\ HashMatches("a")


\* The cache file is up to date as the claims define it and decodes.
LoadableUpToDate(sBannerPath) ==
    /\ CacheLoadable(cacheFiles, sBannerPath)
    /\ m_bFastLoad \/ HashMatches(sBannerPath)

\* C5's first and last parts: in the disabled mode CacheBanner changes
\* nothing, in load-on-demand mode it adds no entry to the map.
CacheBannerOffAndOnDemand(p) ==
    LET r == CacheBanner(Current, p)
    IN  /\ m_BannerCache = BNCACHE_OFF => DoesNothing(r)
        /\ m_BannerCache = BNCACHE_LOW_RES_LOAD_ON_DEMAND =>
               \A q \in Paths : ~IsLoaded(Current, q) => ~IsLoaded(r, q)

\* C5, as the specification states it: CacheBanner follows the mode matrix.
\* Disabled: no change.  Preload: with a decodable source or a loadable
\* up-to-date cache file the banner is loaded afterwards.  Load on demand:
\* no entry is added to the map.
C5_CacheBannerModeMatrix ==
    [][\A p \in Paths :
           (last'.op = "CacheBanner" /\ last'.path = p) =>
               /\ m_BannerCache = BNCACHE_OFF =>
                      UNCHANGED <<g_BannerPathToImage, BannerData, cacheFiles>>
               /\ (m_BannerCache = BNCACHE_LOW_RES_PRELOAD
                       /\ (source[p].k = "good" \/ LoadableUpToDate(p))) =>
                      g_BannerPathToImage'[p] # NULL
               /\ m_BannerCache = BNCACHE_LOW_RES_LOAD_ON_DEMAND =>
                      \A q \in Paths :
                          g_BannerPathToImage[q] = NULL =>
                              g_BannerPathToImage'[q] = NULL]_vars

\* C5, amended: in preload mode the banner is loaded afterwards when its
\* source file exists and either decodes or has a loadable up-to-date cache
\* file; when the source file does not exist CacheBanner changes nothing.
C5_CacheBannerModeMatrixWithSource ==
    ~aborted =>
        \A p \in Paths :
            /\ CacheBannerOffAndOnDemand(p)
            /\ (m_BannerCache = BNCACHE_LOW_RES_PRELOAD /\ DoesFileExist(p)
                    /\ (source[p].k = "good" \/ LoadableUpToDate(p))) =>
                   IsLoaded(CacheBanner(Current, p), p)
            /\ ~DoesFileExist(p) => DoesNothing(CacheBanner(Current, p))

\* C5's case: in preload mode CacheBanner has found the cache file of a
\* banner whose source no longer decodes up to date, and has loaded it.
C5_Witness ==
    /\ m_BannerCache = BNCACHE_LOW_RES_PRELOAD
    /\ last.op = "CacheBanner" /\ last.path = "a"
    /\ last.loads = 1 /\ last.regens = 0
    /\ source["a"].k = "bad"
    /\ g_BannerPathToImage["a"] # NULL

\* C6, as the specification states it: in preload mode, as in the disabled
\* mode, LoadBanner reads no cache file, regenerates nothing and leaves the
\* map, the cache directory and the index as they are.
C6_LoadBannerNoOpInPreload ==
    [][(last'.op = "LoadBanner"
            /\ m_BannerCache \in {BNCACHE_OFF, BNCACHE_LOW_RES_PRELOAD}) =>
           /\ last'.loads = 0 /\ last'.regens = 0
           /\ UNCHANGED <<g_BannerPathToImage, BannerData, cacheFiles>>]_vars

\* C6, amended: LoadBanner is a no-op in the disabled mode, and in preload
\* mode when the path is empty or already loaded.  In preload mode with the
\* path not loaded it reads the cache file and puts the decoded surface in
\* the map; if the file does not decode it regenerates once.
C6_LoadBannerLoadsInPreload ==
    ~aborted =>
        \A p \in Args :
            LET r == LoadBanner(Current, p)
            IN  /\ m_BannerCache = BNCACHE_OFF => DoesNothing(r)
                /\ (m_BannerCache = BNCACHE_LOW_RES_PRELOAD
                        /\ (p = "" \/ IsLoaded(Current, p))) =>
                       DoesNothing(r)
                /\ (m_BannerCache = BNCACHE_LOW_RES_PRELOAD
                        /\ p # "" /\ ~IsLoaded(Current, p)) =>
                       /\ r.loads >= 1
                       /\ CacheLoadable(cacheFiles, p) =>
                              /\ r.img[p] =
                                     LoadSurface(
                                         cacheFiles[GetBannerCachePath(p)])
                              /\ r.loads = 1 /\ r.regens = 0
                       /\ ~CacheLoadable(cacheFiles, p) => r.regens = 1

\* C6's case: in preload mode LoadBanner has read a cache file and loaded
\* its banner.
C6_Witness ==
    /\ m_BannerCache = BNCACHE_LOW_RES_PRELOAD
    /\ last.op = "LoadBanner" /\ last.path \in Paths
    /\ last.loads = 1 /\ last.regens = 0
    /\ g_BannerPathToImage[last.path] # NULL

\* The call loads and unloads nothing and leaves the map, the index and the
\* cache directory as they are.
LeavesCacheAlone(c) ==
    /\ c.img = g_BannerPathToImage
    /\ c.data = BannerData
    /\ c.files = cacheFiles
    /\ c.loads = 0 /\ c.regens = 0 /\ c.saves = 0 /\ c.unloads = 0

\* C7, as the specification states it: in the disabled and preload modes
\* Demand and Undemand leave all cache state, the demand refcount included,
\* unchanged.
C7_DemandNoOpOutsideOnDemand ==
    [][(last'.op \in {"Demand", "Undemand"}
            /\ m_BannerCache \in {BNCACHE_OFF, BNCACHE_LOW_RES_PRELOAD}) =>
           UNCHANGED <<g_BannerPathToImage, g_iDemandRefcount, BannerData,
                       cacheFiles>>]_vars

\* C7, amended: in the disabled and preload modes Demand and Undemand load
\* and unload nothing and leave the map and the disk as they are, but they
\* increment and decrement the demand refcount.
C7_DemandOnlyCountsOutsideOnDemand ==
    (~aborted /\ m_BannerCache \in {BNCACHE_OFF, BNCACHE_LOW_RES_PRELOAD}) =>
        /\ LeavesCacheAlone(Demand(Current))
        /\ Demand(Current).refcount = g_iDemandRefcount + 1
        /\ LeavesCacheAlone(Undemand(Current))
        /\ Undemand(Current).refcount = g_iDemandRefcount - 1

\* C7's case: in preload mode an Undemand has brought the refcount to 0 and
\* the loaded banners are still there.
C7_Witness ==
    /\ m_BannerCache = BNCACHE_LOW_RES_PRELOAD
    /\ last.op = "Undemand"
    /\ g_iDemandRefcount = 0
    /\ Loaded = Paths


\* The ID carries the tag LoadCachedBanner gives a rotated banner.
WasRotatedTag(ID, sBannerPath) ==
    ID = GetBannerCachePath(sBannerPath) \o "(was rotated)"

\* The conditions under which LoadCachedBanner makes a texture.
MakesTexture(sBannerPath) ==
    /\ sBannerPath # ""
    /\ g_BannerPathToImage[sBannerPath] # NULL
    /\ BannerData[sBannerPath].Width # 0
    /\ BannerData[sBannerPath].Height # 0
    /\ TextureIDFor(sBannerPath, BannerData[sBannerPath]) \notin registered

\* C8: LoadCachedBanner(path) constructs and registers a texture only if
\* path is not empty, a surface for it is in the map, the Width and Height
\* of its record are not 0 and the ID is not registered yet; in every other
\* case it returns the ID, makes and registers no texture and leaves the map
\* as it is.
C8_LoadCachedBannerGuards ==
    ~aborted =>
        \A p \in Args :
            LET r == LoadCachedBanner(Current, p)
            IN  /\ r.created => MakesTexture(p)
                /\ r.registered # registered => MakesTexture(p)
                /\ r.registered \subseteq registered \cup {r.id}
                /\ MakesTexture(p) => r.created
                /\ ~MakesTexture(p) =>
                       /\ ~r.created /\ ~r.failed
                       /\ r.registered = registered
                       /\ r.img = g_BannerPathToImage
                       /\ \/ r.id = GetBannerCachePath(p)
                          \/ WasRotatedTag(r.id, p)

\* C8's case: LoadCachedBanner has made a texture of a loaded banner and
\* registered it under the ID it returned.
C8_Witness ==
    /\ last.op = "LoadCachedBanner" /\ last.path \in Paths
    /\ last.created
    /\ last.id \in registered
    /\ g_BannerPathToImage[last.path] # NULL

\* C9, as the specification states it: the ID LoadCachedBanner returns
\* carries the tag whenever the record of the path has Rotated = true, and
\* never when Rotated is false or there is no record.
C9_TaggedIffRotated ==
    [][\A p \in Paths :
           (last'.op = "LoadCachedBanner" /\ last'.path = p) =>
               (WasRotatedTag(last'.id, p) <=> BannerData[p].Rotated)]_vars

\* C9, amended: the ID carries the tag exactly when the path is not empty,
\* a surface for it is in the map, and its record has Width and Height other
\* than 0 and Rotated = true.
C9_TaggedIffRotatedAndLoaded ==
    ~aborted =>
        \A p \in Args :
            LET r == LoadCachedBanner(Current, p)
            IN  WasRotatedTag(r.id, p) <=>
                    /\ p # ""
                    /\ g_BannerPathToImage[p] # NULL
                    /\ BannerData[p].Width # 0
                    /\ BannerData[p].Height # 0
                    /\ BannerData[p].Rotated

\* C9's case: LoadCachedBanner has returned the tagged ID of the loaded
\* diagonal banner.
C9_Witness ==
    /\ last.op = "LoadCachedBanner" /\ last.path = "b"
    /\ WasRotatedTag(last.id, "b")
    /\ BannerData["b"].Rotated
    /\ g_BannerPathToImage["b"] # NULL

\* C10: every surface BannerTexture::Create gives to CreateTexture has a
\* width and a height that are powers of two, whatever the maximum texture
\* size of the display: the ASSERTs of lines 225-226 never fail.
C10_TexturesArePowersOfTwo ==
    /\ ~aborted
    /\ (last.op = "LoadCachedBanner" /\ last.created) =>
           IsTextureSized(g_BannerPathToImage[last.path])

\* The call writes no cache file and no index, changes no record and evicts
\* no surface: every surface that was loaded is still the one in the map.
LeavesDiskAndLoaded(c) ==
    /\ c.saves = 0
    /\ c.files = cacheFiles
    /\ c.data = BannerData
    /\ c.frees = 0 /\ c.erased = {}
    /\ \A q \in Paths :
           g_BannerPathToImage[q] # NULL => c.img[q] = g_BannerPathToImage[q]

\* C11: if the source of a path does not exist or does not decode, an
\* attempt to regenerate its cache, by CacheBanner or by LoadBanner's retry,
\* gives up: it writes no cache file, changes no field of the path's record,
\* does not rewrite the index and evicts no loaded surface, and the caller
\* goes on as after any other return.  CacheBannerInternal itself changes
\* nothing at all.
C11_FailedRegenerationChangesNothing ==
    ~aborted =>
        \A p \in Paths : source[p].k # "good" =>
            LET direct == CacheBannerInternal(Current, p)
                viaCacheBanner == CacheBanner(Current, p)
                viaLoadBanner == LoadBanner(Current, p)
            IN  /\ direct = [Current EXCEPT !.regens = 1]
                /\ LeavesDiskAndLoaded(viaCacheBanner)
                /\ LeavesDiskAndLoaded(viaLoadBanner)
                /\ viaCacheBanner.regens >= 1 =>
                       viaCacheBanner.img = g_BannerPathToImage
                /\ viaLoadBanner.regens >= 1 =>
                       viaLoadBanner.img = g_BannerPathToImage
                /\ source[p].k = "none" => viaCacheBanner.regens = 0

\* C11's case: CacheBanner has tried to regenerate the stale cache of a
\* loaded banner whose source no longer decodes; nothing was written, the
\* record still holds the old hash and the surface is still loaded.
C11_Witness ==
    /\ last.op = "CacheBanner" /\ last.path = "a"
    /\ last.regens = 1 /\ last.saves = 0 /\ last.frees = 0
    /\ source["a"].k = "bad"
    /\ BannerData["a"].k = "rec"
    /\ BannerData["a"].FullHash # source["a"].hash
    /\ g_BannerPathToImage["a"] # NULL

\* C12: the demand refcount is never negative, whatever the sequence of
\* Demand() and Undemand() calls and whatever the mode, an Undemand() with no
\* Demand() before it included; so the Demand() that loads the banners is the
\* one that brings the count from 0 to 1, and the Undemand() that unloads
\* them the one that brings it from 1 to 0.
C12_RefcountNeverNegative ==
    /\ g_iDemandRefcount >= 0
    /\ (last.op = "Demand" /\ last.loads > 0) => g_iDemandRefcount = 1
    /\ (last.op = "Undemand" /\ last.unloads > 0) => g_iDemandRefcount = 0

\* The 800x600 banner "a" has been cached by a CacheBanner in preload mode
\* without the palette preference.
CachedOrdinaryBanner ==
    /\ last.op = "CacheBanner" /\ last.path = "a"
    /\ last.saves = 1
    /\ m_BannerCache = BNCACHE_LOW_RES_PRELOAD
    /\ ~m_bPalettedBannerCache

\* C13, as the specification states it: for the 800x600 source in preload
\* mode without the palette preference CacheBanner writes the record
\* {Width: 800, Height: 600, Rotated: false}, the cache bitmap has 16 bits
\* per pixel and power-of-two dimensions of at most 400 by 256, and the
\* banner is loaded after the call.
C13_OrdinaryBannerAtMost400x256 ==
    [][CachedOrdinaryBanner' =>
           LET record == BannerData'["a"]
               file == cacheFiles'[GetBannerCachePath("a")]
           IN  /\ record.Width = 800 /\ record.Height = 600
               /\ ~record.Rotated
               /\ file.bpp = 16
               /\ file.w = power_of_two(file.w) /\ file.w <= 400
               /\ file.h = power_of_two(file.h) /\ file.h <= 256
               /\ g_BannerPathToImage'["a"] # NULL]_vars

\* C13, amended: the cache bitmap is 512 wide and 256 high.  The halved width
\* 400 lies between 256 and 512 and is nearer to 512; the halved height 300
\* is nearer to 256.  The record, the 16-bit format and the residency are as
\* stated, and the surface in the map is the one that was saved.
C13_OrdinaryBannerIs512x256 ==
    (~aborted /\ m_BannerCache = BNCACHE_LOW_RES_PRELOAD
         /\ ~m_bPalettedBannerCache /\ source["a"].k = "good") =>
        LET r == CacheBanner(Current, "a")
            file == r.files[GetBannerCachePath("a")]
        IN  /\ IsLoaded(r, "a")
            /\ r.saves = 1 =>
                   /\ r.data["a"] =
                          [k |-> "rec", Path |-> GetBannerCachePath("a"),
                           Width |-> 800, Height |-> 600,
                           FullHash |-> source["a"].hash, Rotated |-> FALSE]
                   /\ file = SurfaceFile(Surface(512, 256, 16))
                   /\ r.img["a"] = Surface(512, 256, 16)

\* C13's case: the 800x600 banner has been cached in preload mode and its
\* 512x256 16-bit surface is in the map.
C13_Witness ==
    /\ CachedOrdinaryBanner
    /\ BannerData["a"].Width = 800 /\ BannerData["a"].Height = 600
    /\ cacheFiles[GetBannerCachePath("a")] = SurfaceFile(Surface(512, 256, 16))
    /\ g_BannerPathToImage["a"] = Surface(512, 256, 16)

\* What a CacheBanner("a") that regenerates saves, and what is resized.
SavedCacheFile(c) == c.files[GetBannerCachePath("a")]

\* C14: the resize rounds half of each dimension d >= 1 (integer division)
\* to power_of_two(half) or to half of that, whichever is nearer, and to the
\* larger of the two, the rounded-up one, when they are equally near (as for
\* halves of 3, 6, 12, 24, 48).
C14_TiesRoundUp ==
    /\ \A d \in {sourceImage["a"].w, sourceImage["a"].h} :
           LET half == d \div 2
               up == power_of_two(half)
               down == up \div 2
               rounded == RoundedHalf(d)
           IN  /\ rounded \in {up, down}
               /\ Abs(half - rounded) <= Abs(half - up)
               /\ Abs(half - rounded) <= Abs(half - down)
               /\ Abs(half - up) = Abs(half - down) => rounded = up
               /\ half \in {3, 6, 12, 24, 48} => rounded = (4 * half) \div 3
    /\ ~IsDiagonalBanner(sourceImage["a"].w, sourceImage["a"].h) =>
           LET file == SavedCacheFile(CacheBanner(Current, "a"))
           IN  /\ file.w = Max(RoundedHalf(sourceImage["a"].w),
                               ResizeFloor(sourceImage["a"].w))
               /\ file.h = Max(RoundedHalf(sourceImage["a"].h),
                               ResizeFloor(sourceImage["a"].h))

\* C14's case: a banner 96 wide, whose half 48 is as far from 32 as from 64,
\* has been cached 64 wide.
C14_Witness ==
    /\ last.op = "CacheBanner" /\ last.saves = 1
    /\ sourceImage["a"].w = 96
    /\ ~IsDiagonalBanner(sourceImage["a"].w, sourceImage["a"].h)
    /\ cacheFiles[GetBannerCachePath("a")].w = 64
    /\ g_BannerPathToImage["a"].w = 64

\* C15: the resize never goes below its floor.  Whatever the size w x h
\* (each >= 1) of the image that is resized, each dimension of the saved
\* bitmap is at least min(32, power_of_two(that dimension)); a 40x40 source
\* is saved at least 32 wide and 32 high.
C15_ResizeFloor ==
    ~aborted =>
        LET img == Unrotated(sourceImage["a"])
            file == SavedCacheFile(CacheBannerInternal(Current, "a"))
        IN  /\ img.w >= 1 /\ img.h >= 1
            /\ file.k = "file"
            /\ file.w >= Min(32, power_of_two(img.w))
            /\ file.h >= Min(32, power_of_two(img.h))
            /\ ResizeTarget(img.w) = file.w /\ ResizeTarget(img.h) = file.h
            /\ (sourceImage["a"].w = 40 /\ sourceImage["a"].h = 40) =>
                   file.w >= 32 /\ file.h >= 32

\* C15's case: a 40x40 banner, whose halves round to 16, has been cached at
\* 32x32.
C15_Witness ==
    /\ last.op = "CacheBanner" /\ last.saves = 1
    /\ sourceImage["a"].w = 40 /\ sourceImage["a"].h = 40
    /\ RoundedHalf(40) = 16
    /\ cacheFiles[GetBannerCachePath("a")] = SurfaceFile(Surface(32, 32, 16))

\* C16: a regeneration that succeeds for a source of diagonal dimensions
\* records Rotated = true and takes the 256x64 canvas of the un-rotated
\* banner for the image that is resized: the record has Width 256 and Height
\* 64 and the cache bitmap is 128x32.  For any other source the record has
\* Rotated = false and the Width and Height of the decoded source.
C16_DiagonalBannersAreUnrotated ==
    ~aborted =>
        LET src == sourceImage["a"]
            r == CacheBannerInternal(Current, "a")
            record == r.data["a"]
            file == SavedCacheFile(r)
        IN  /\ r.saves = 1 /\ record.k = "rec"
            /\ IsDiagonalBanner(src.w, src.h) =>
                   /\ record.Rotated
                   /\ record.Width = 256 /\ record.Height = 64
                   /\ file.w = 128 /\ file.h = 32
                   /\ file.w = ResizeTarget(256) /\ file.h = ResizeTarget(64)
            /\ ~IsDiagonalBanner(src.w, src.h) =>
                   /\ ~record.Rotated
                   /\ record.Width = src.w /\ record.Height = src.h
                   /\ file.w = ResizeTarget(src.w)
                   /\ file.h = ResizeTarget(src.h)

\* C16's case: a diagonal banner has been cached; its record says Rotated,
\* 256x64, and its bitmap in the map is 128x32.
C16_Witness ==
    /\ last.op = "CacheBanner" /\ last.saves = 1
    /\ IsDiagonalBanner(sourceImage["a"].w, sourceImage["a"].h)
    /\ BannerData["a"].Rotated
    /\ BannerData["a"].Width = 256 /\ BannerData["a"].Height = 64
    /\ g_BannerPathToImage["a"] = Surface(128, 32, 16)

\* The surfaces in a map.
LoadedIn(img) == {p \in Paths : img[p] # NULL}

\* What a call of the cache owes its surfaces.  It assigns to no slot that
\* holds one; every surface it got is in the map or deleted, and every
\* surface it took out of the map is deleted: the surfaces it got, less the
\* ones it deleted, are the ones the map has gained.  The slots it erased
\* held a surface before it, or one it had put there itself.
OwnsItsSurfaces(c) ==
    /\ c.overwrites = 0
    /\ c.allocs - c.frees =
           Cardinality(LoadedIn(c.img)) - Cardinality(Loaded)
    /\ c.frees >= Cardinality(c.erased)
    /\ \A p \in c.erased : g_BannerPathToImage[p] # NULL \/ c.allocs > 0
    /\ \A p \in Loaded \ c.erased : c.img[p] = g_BannerPathToImage[p]

C18_NoUseOfErasedSlot ==
    last.op = "Reload" => last.id \notin dangling

\* C19: in load-on-demand mode the Demand() that brings the refcount from 0
\* to 1 visits every banner that has a record.  It puts the decoded cache
\* file in the map for each one that is not loaded and whose cache file
\* decodes, leaves the loaded ones as they are, passes over each one whose
\* cache file is missing or does not decode and goes on with the rest, and
\* neither regenerates a cache file nor writes the index.
C19_DemandLoadsEveryCachedBanner ==
    (~aborted /\ m_BannerCache = BNCACHE_LOW_RES_LOAD_ON_DEMAND
         /\ g_iDemandRefcount = 0) =>
        LET r == Demand(Current)
            visited == {p \in Paths : BannerData[p].k = "rec"}
            tried == {p \in visited : g_BannerPathToImage[p] = NULL}
        IN  /\ r.refcount = 1
            /\ \A p \in Paths :
                   r.img[p] =
                       IF p \in tried
                       THEN LoadSurface(cacheFiles[GetBannerCachePath(p)])
                       ELSE g_BannerPathToImage[p]
            /\ r.loads = Cardinality(tried)
            /\ r.allocs = Cardinality({p \in tried :
                                          CacheLoadable(cacheFiles, p)})
            /\ r.regens = 0 /\ r.saves = 0 /\ r.unloads = 0 /\ r.frees = 0
            /\ r.files = cacheFiles
            /\ r.data = BannerData

\* C19's case: the first Demand() in load-on-demand mode has tried both
\* banners, found the cache file of one missing or damaged, and loaded the
\* other.
C19_Witness ==
    /\ m_BannerCache = BNCACHE_LOW_RES_LOAD_ON_DEMAND
    /\ last.op = "Demand" /\ last.loads = 2
    /\ g_iDemandRefcount = 1
    /\ \A p \in Paths : BannerData[p].k = "rec"
    /\ \E p \in Paths :
           /\ ~CacheLoadable(cacheFiles, p)
           /\ Loaded = Paths \ {p}

\* What CacheBannerInternal saves for a banner in the current state.
NewSurface(sBannerPath) ==
    LET img == Unrotated(sourceImage[sBannerPath])
    IN  Surface(ResizeTarget(img.w), ResizeTarget(img.h),
                EncodedBits(img.bytes, m_bPalettedBannerCache))

\* C20: in load-on-demand mode a regeneration that succeeds, from
\* CacheBanner or from LoadBanner, deletes the surface loaded for the path,
\* if there is one, and does not put the new one in the map: right after a
\* successful CacheBannerInternal the path is not in the map, even with the
\* demand refcount above 0.  In preload mode the entry is replaced by the
\* newly made surface.
C20_RegenerationEvictsOnDemand ==
    ~aborted =>
        \A p \in Paths : source[p].k = "good" =>
            LET direct == CacheBannerInternal(Current, p)
                viaCacheBanner == CacheBanner(Current, p)
                viaLoadBanner == LoadBanner(Current, p)
                wasLoaded == IF g_BannerPathToImage[p] # NULL THEN 1 ELSE 0
            IN  /\ direct.saves = 1
                /\ \A q \in Paths \ {p} :
                       direct.img[q] = g_BannerPathToImage[q]
                /\ direct.overwrites = 0
                /\ m_BannerCache = BNCACHE_LOW_RES_LOAD_ON_DEMAND =>
                       /\ direct.img[p] = NULL
                       /\ direct.frees = wasLoaded + 1
                       /\ direct.erased = {p} \cap Loaded
                       /\ viaCacheBanner.saves = 1 =>
                              viaCacheBanner = direct
                       /\ viaLoadBanner.saves = 1 =>
                              /\ g_BannerPathToImage[p] = NULL
                              /\ viaLoadBanner.loads = 2
                              /\ viaLoadBanner.img[p] = NewSurface(p)
                /\ m_BannerCache = BNCACHE_LOW_RES_PRELOAD =>
                       /\ direct.img[p] = NewSurface(p)
                       /\ direct.frees = wasLoaded
                       /\ direct.erased = {p} \cap Loaded
                       /\ viaCacheBanner.saves = 1 =>
                              viaCacheBanner.img[p] = NewSurface(p)
                       /\ viaLoadBanner.saves = 1 =>
                              viaLoadBanner.img[p] = NewSurface(p)

\* C20's case: within a demand scope in load-on-demand mode CacheBanner has
\* regenerated the cache of a loaded banner; its surface has been deleted
\* and the banner is no longer in the map, while the other one still is.
C20_Witness ==
    /\ m_BannerCache = BNCACHE_LOW_RES_LOAD_ON_DEMAND
    /\ g_iDemandRefcount > 0
    /\ last.op = "CacheBanner" /\ last.path = "a"
    /\ last.saves = 1 /\ last.frees = 2
    /\ g_BannerPathToImage["a"] = NULL
    /\ g_BannerPathToImage["b"] # NULL

=============================================================================
